---- MODULE Spec2Model ----
(***************************************************************************)
(* Model of the fakeyou-client library (src/src/lib.rs, src/src/error.rs): *)
(* login, job submission, the two job pollers, the catalog call and the    *)
(* reqwest::Error -> Error classifier.  The remote service and the HTTP    *)
(* transport are the environment: every reply is chosen with \E.           *)
(***************************************************************************)
EXTENDS Integers, Sequences, FiniteSets, TLC

\* ---------------------------------------------------------------- bounds
MaxHttpClients == 2     \* calls of from_login_credentials
MaxWire == 3            \* requests on the wire beyond which no call is entered
MaxPolls == 3           \* status requests of one poll call
MaxUuids == 2           \* calls of Uuid::new_v4
MaxPathAtoms == 4       \* pieces of a media path
MaxOtherSteps == 2      \* steps of another task of the executor

\* ------------------------------------------------------------ data model
\* JobStatus (lib.rs 249-256)
JobStatus ==
    {"AttemptFailed", "CompleteFailure", "CompleteSuccess", "Dead", "Pending", "Started"}

\* job tokens that callers pass and that responses carry
JobTokens == {"T1", "T2"}

\* an absent Option<String>
None == "None"

\* reqwest::Error::status() == None
NoStatus == 0

\* HTTP status codes the remote side answers with
HttpStatuses == {200, 304, 401, 429, 500}

\* contents of a submission (tts_model_token + inference_text, or the
\* non-token fields of CreateFaceAnimationPayload)
Contents == {"A"}

\* TtsJobResponse / FaceAnimationJobResponse as the pollers read them:
\* success, state.status (state.status.status), state.job_token and the
\* optional result (maybe_public_bucket_wav_audio_path / maybe_result)
JobResponses ==
    [success : BOOLEAN, status : JobStatus, job_token : JobTokens, media : {None, "Some"}]

\* JSON bodies of a job-status reply: not deserializable, or a JobResponse
JobBodies == [json : {"malformed"}] \cup [json : {"ok"}, v : JobResponses]

\* JSON bodies of a submission reply: the success flag and the job token field
SubmitBodies ==
    [json : {"malformed"}]
    \cup [json : {"ok"}, success : BOOLEAN, inference_job_token : JobTokens \cup {None}]

\* JSON bodies of an upload reply
UploadBodies ==
    [json : {"malformed"}] \cup [json : {"ok"}, success : BOOLEAN, upload_token : {"U1", None}]

\* JSON bodies of the catalog reply: the "models" property absent, present
\* but not a list of TtsVoice, or a (possibly empty) list of voices
VoicesBodies ==
    [json : {"malformed"}] \cup [json : {"ok"}, models : {"absent", "not_voices", "empty", "voices"}]

\* Response::error_for_status of reqwest: an error for a client error (4xx)
\* or a server error (5xx) status, the response itself for any other status
error_for_status(status) == status >= 400 /\ status < 600

\* what the transport does with one request: send() fails, or a response
\* with a status and a body arrives; the body of a response that
\* error_for_status rejects is never read and is left out
Replies(Bodies) ==
    [sent : {FALSE}, status : {NoStatus}, body : {[json |-> "malformed"]}]
    \cup [sent : {TRUE}, status : {s \in HttpStatuses : error_for_status(s)},
          body : {[json |-> "malformed"]}]
    \cup [sent : {TRUE}, status : {s \in HttpStatuses : ~error_for_status(s)},
          body : Bodies]

\* reqwest::Error: its kind and its status()
ReqwestError(kind, status) == [kind |-> kind, status |-> status]

NoCause == ReqwestError("none", NoStatus)

\* ------------------------------------------------------- error taxonomy
\* enum Error (error.rs 7-19); token, resp and cause are the payloads of
\* TtsJobFailed, FaceAnimationJobFailed and InternalError
Err(tag, token, resp, cause) ==
    [tag |-> tag, token |-> token, resp |-> resp, cause |-> cause, why |-> ""]

\* Ok(value)
Ok(resp) ==
    [tag |-> "Ok", token |-> "", resp |-> resp, cause |-> NoCause, why |-> ""]

\* InternalError built from anyhow::anyhow!(msg) (lib.rs 114-118)
Anyhow(msg) ==
    [tag |-> "InternalError", token |-> "", resp |-> <<>>, cause |-> NoCause, why |-> msg]

NoResult ==
    [tag |-> "None", token |-> "", resp |-> <<>>, cause |-> NoCause, why |-> ""]

\* the conversion without its TOO_MANY_REQUESTS arm
From_without_429(e) ==
    IF e.status # NoStatus
    THEN CASE e.status = 401 -> Err("AuthenticationError", "", <<>>, NoCause)
           [] OTHER -> Err("InternalError", "", <<>>, e)
    ELSE Err("InternalError", "", <<>>, e)

\* impl From<reqwest::Error> for Error (error.rs 21-40)
From(e) ==
    IF e.status # NoStatus
    THEN CASE e.status = 401 -> Err("AuthenticationError", "", <<>>, NoCause)
           [] e.status = 429 -> Err("TooManyRequestsError", "", <<>>, NoCause)
           [] OTHER -> Err("InternalError", "", <<>>, e)
    ELSE Err("InternalError", "", <<>>, e)

\* send().await?.error_for_status()?.json::<T>().await? : the reqwest::Error
\* that one of the three `?` raises, or NoCause when a value of T comes out
HttpError(reply, decodes) ==
    IF ~reply.sent THEN ReqwestError("request", NoStatus)
    ELSE IF error_for_status(reply.status) THEN ReqwestError("status", reply.status)
    ELSE IF ~decodes THEN ReqwestError("decode", NoStatus)
    ELSE NoCause

\* serde: which bodies deserialize into the response type of each call
DecodesJob(b) == b.json = "ok"

\* TtsInferenceResponse (lib.rs 224-232): inference_job_token is an Option
DecodesTtsInference(b) == b.json = "ok"

\* CreateFaceAnimationResponse (lib.rs 317-322): inference_job_token is a String
DecodesCreateFaceAnimation(b) == b.json = "ok" /\ b.inference_job_token # None

\* UploadFileResponse (lib.rs 274-278): upload_token is a String
DecodesUpload(b) == b.json = "ok" /\ b.upload_token # None

\* serde_json::Value (lib.rs 112)
DecodesValue(b) == b.json = "ok"

\* fixed delays of the two pollers, in seconds
TtsPollDelay == 8
FaceAnimationPollDelay == 10

\* ------------------------------------------------------ poller decisions
\* one pass of the loop body after the response was read: either the value
\* the call returns, or NoResult when the loop goes on to the sleep

\* poll_tts_job with the `break` of the CompleteSuccess arm lost: the loop
\* goes on to the sleep
poll_tts_job_body_no_break(response) ==
    IF ~response.success
    THEN Err("TtsJobFailed", response.job_token, <<>>, NoCause)
    ELSE CASE response.status \in {"AttemptFailed", "Pending", "Started", "CompleteSuccess"} ->
                  NoResult
           [] response.status \in {"CompleteFailure", "Dead"} ->
                  Err("TtsJobFailed", response.job_token, <<>>, NoCause)

\* poll_tts_job that matches on the status before it looks at the envelope:
\* CompleteSuccess wins over success = false
poll_tts_job_body_status_first(response) ==
    CASE response.status = "CompleteSuccess" -> Ok(<<response>>)
      [] response.status \in {"CompleteFailure", "Dead"} ->
             Err("TtsJobFailed", response.job_token, <<>>, NoCause)
      [] OTHER -> IF ~response.success
                  THEN Err("TtsJobFailed", response.job_token, <<>>, NoCause)
                  ELSE NoResult

\* poll_tts_job that takes a CompleteSuccess without media path for a failure
poll_tts_job_body_requires_media(response) ==
    IF ~response.success
    THEN Err("TtsJobFailed", response.job_token, <<>>, NoCause)
    ELSE CASE response.status \in {"AttemptFailed", "Pending", "Started"} -> NoResult
           [] response.status = "CompleteSuccess" ->
                  IF response.media = None
                  THEN Err("TtsJobFailed", response.job_token, <<>>, NoCause)
                  ELSE Ok(<<response>>)
           [] response.status \in {"CompleteFailure", "Dead"} ->
                  Err("TtsJobFailed", response.job_token, <<>>, NoCause)

\* poll_tts_job that takes Dead for a state the job may still leave
poll_tts_job_body_dead_pending(response) ==
    IF ~response.success
    THEN Err("TtsJobFailed", response.job_token, <<>>, NoCause)
    ELSE CASE response.status \in {"AttemptFailed", "Dead", "Pending", "Started"} ->
                  NoResult
           [] response.status = "CompleteSuccess" -> Ok(<<response>>)
           [] response.status = "CompleteFailure" ->
                  Err("TtsJobFailed", response.job_token, <<>>, NoCause)

\* poll_tts_job (lib.rs 83-94)
poll_tts_job_body(response) ==
    IF ~response.success
    THEN Err("TtsJobFailed", response.job_token, <<>>, NoCause)
    ELSE CASE response.status \in {"AttemptFailed", "Pending", "Started"} -> NoResult
           [] response.status = "CompleteSuccess" -> Ok(<<response>>)
           [] response.status \in {"CompleteFailure", "Dead"} ->
                  Err("TtsJobFailed", response.job_token, <<>>, NoCause)

\* poll_face_animation_job under the other policy: AttemptFailed is a
\* terminal failure
poll_face_animation_job_body_terminal(response) ==
    IF ~response.success
    THEN Err("FaceAnimationJobFailed", "", <<response>>, NoCause)
    ELSE CASE response.status \in {"Pending", "Started"} -> NoResult
           [] response.status = "CompleteSuccess" -> Ok(<<response>>)
           [] response.status \in {"AttemptFailed", "CompleteFailure", "Dead"} ->
                  Err("FaceAnimationJobFailed", "", <<response>>, NoCause)

\* poll_face_animation_job that hands back every finished job as Ok and
\* leaves its status to the caller
poll_face_animation_job_body_lenient(response) ==
    IF ~response.success
    THEN Err("FaceAnimationJobFailed", "", <<response>>, NoCause)
    ELSE CASE response.status \in {"AttemptFailed", "Pending", "Started"} -> NoResult
           [] response.status \in {"CompleteSuccess", "CompleteFailure", "Dead"} ->
                  Ok(<<response>>)

\* poll_face_animation_job (lib.rs 199-210)
poll_face_animation_job_body(response) ==
    IF ~response.success
    THEN Err("FaceAnimationJobFailed", "", <<response>>, NoCause)
    ELSE CASE response.status \in {"AttemptFailed", "Pending", "Started"} -> NoResult
           [] response.status = "CompleteSuccess" -> Ok(<<response>>)
           [] response.status \in {"CompleteFailure", "Dead"} ->
                  Err("FaceAnimationJobFailed", "", <<response>>, NoCause)

PollOps == {"poll_tts_job", "poll_face_animation_job"}

poll_body(op, response) ==
    IF op = "poll_tts_job" THEN poll_tts_job_body(response)
    ELSE poll_face_animation_job_body(response)

poll_delay(op) ==
    IF op = "poll_tts_job" THEN TtsPollDelay ELSE FaceAnimationPollDelay

poll_endpoint(op) ==
    IF op = "poll_tts_job" THEN "GET /tts/job" ELSE "GET /model_inference/job_status"

\* ----------------------------------------------------------------- state
VARIABLES
    logins,     \* one entry per from_login_credentials call: did the HttpClient
                \* build, the status of the login reply, was a Client returned
    wire,       \* the requests handed to the transport, in order
    uuids,      \* how many values Uuid::new_v4 has produced
    payloads,   \* the CreateFaceAnimationPayload values the caller has built
    pc,         \* "idle", or the position of the running poll loop
    call,       \* the call that runs or the last call that returned
    exec,       \* the executor thread the poll runs on: has the caller raised
                \* its cancellation signal, and the steps another task has made
    reports     \* the (success, status) reports the remote job will give, in
                \* order, when they are fixed in advance; <<>> when they are not

vars == <<logins, wire, uuids, payloads, pc, call, exec, reports>>

\* the Client handles that exist: the i-th call of from_login_credentials
\* returned Ok(Client)
Clients == {i \in 1..Len(logins) : logins[i].handle}

\* one request: the HttpClient that sends it, the endpoint, and the
\* uuid_idempotency_token and content of a submission (0, "" when the request
\* has none)
Request(client, endpoint, idem, content) ==
    [client |-> client, endpoint |-> endpoint, idem |-> idem, content |-> content]

NoReply == [sent |-> FALSE, status |-> NoStatus, body |-> [json |-> "none"]]

\* one call of a Client method: its arguments; the requests it has issued;
\* for a poll call the (success, status) pairs of the responses it has read,
\* the loop's local `response` (<<>> before the first one) and the sleeps it
\* has finished; for a call of one request the reply it got; the
\* reqwest::Error a `?` has met; how often it has returned and what
Call(op, client, job, requests, seen, response, sleeps, reply, error, returns, result) ==
    [op |-> op, client |-> client, job |-> job, requests |-> requests,
     seen |-> seen, response |-> response, sleeps |-> sleeps,
     reply |-> reply, error |-> error, returns |-> returns, result |-> result]

Seen(response) == [success |-> response.success, status |-> response.status]

\* a call made of a single request, which has returned
Returned(op, client, reply, error, result) ==
    Call(op, client, "", 1, <<>>, <<>>, <<>>, reply, error, 1, result)

\* Uuid::new_v4(): a value no earlier call has produced
new_v4(n) == n + 1

Init ==
    /\ logins = <<>>
    /\ wire = <<>>
    /\ uuids = 0
    /\ payloads = {}
    /\ pc = "idle"
    /\ call = Call("none", 0, "", 0, <<>>, <<>>, <<>>, NoReply, NoCause, 0, NoResult)
    /\ exec = [cancel |-> FALSE, others |-> 0]
    /\ reports = <<>>

\* --------------------------------------------------------------- actions
\* the request of from_login_credentials (lib.rs 34-40)
login_request(id) == <<Request(id, "POST /login", 0, "")>>

\* Client::from_login_credentials (lib.rs 23-44)
from_login_credentials(built, reply) ==
    /\ pc = "idle"
    /\ Len(logins) < MaxHttpClients
    /\ LET id == Len(logins) + 1
           e == IF ~built THEN ReqwestError("builder", NoStatus)
                ELSE HttpError(reply, TRUE)
       IN /\ built => Len(wire) < MaxWire
          /\ wire' = IF built THEN wire \o login_request(id) ELSE wire
          /\ logins' = Append(logins,
                 [built |-> built,
                  status |-> IF built THEN reply.status ELSE NoStatus,
                  handle |-> e = NoCause])
          /\ call' = Call("from_login_credentials", id, "", IF built THEN 1 ELSE 0,
                          <<>>, <<>>, <<>>, IF built THEN reply ELSE NoReply, e, 1,
                          IF e = NoCause THEN Ok(<<>>) ELSE From(e))
    /\ UNCHANGED <<uuids, payloads, pc, exec, reports>>

\* tts_inference that logs in again before it posts
tts_inference_request_relogin(c, token, content) ==
    <<Request(c, "POST /login", 0, ""),
      Request(c, "POST /tts/inference", token, content)>>

\* the request of tts_inference (lib.rs 52-61)
tts_inference_request(c, token, content) ==
    <<Request(c, "POST /tts/inference", token, content)>>

\* Client::tts_inference (lib.rs 47-67)
tts_inference(c, content, reply) ==
    /\ pc = "idle"
    /\ c \in Clients
    /\ uuids < MaxUuids
    /\ Len(wire) < MaxWire
    /\ LET token == new_v4(uuids)
           e == HttpError(reply, DecodesTtsInference(reply.body))
       IN /\ uuids' = token
          /\ wire' = wire \o tts_inference_request(c, token, content)
          /\ call' = Returned("tts_inference", c, reply, e,
                          IF e = NoCause
                          THEN Ok(<<[success |-> reply.body.success,
                                     inference_job_token |-> reply.body.inference_job_token]>>)
                          ELSE From(e))
    /\ UNCHANGED <<logins, payloads, pc, exec, reports>>

\* CreateFaceAnimationPayloadBuilder::build (lib.rs 280-294): the token is
\* drawn when the payload is built, by the field's default
build_payload(content) ==
    /\ pc = "idle"
    /\ uuids < MaxUuids
    /\ LET token == new_v4(uuids)
       IN /\ uuids' = token
          /\ payloads' = payloads \cup
                 {[content |-> content, uuid_idempotency_token |-> token]}
    /\ UNCHANGED <<logins, wire, pc, call, exec, reports>>

\* Client::create_facial_animation (lib.rs 166-180); the payload derives
\* Clone, so the caller can pass the same value again
create_facial_animation(c, payload, reply) ==
    /\ pc = "idle"
    /\ c \in Clients
    /\ payload \in payloads
    /\ Len(wire) < MaxWire
    /\ LET e == HttpError(reply, DecodesCreateFaceAnimation(reply.body))
       IN /\ wire' = Append(wire, Request(c, "POST /animation/face_animation/create",
                                          payload.uuid_idempotency_token,
                                          payload.content))
          /\ call' = Returned("create_facial_animation", c, reply, e,
                          IF e = NoCause
                          THEN Ok(<<[success |-> reply.body.success,
                                     inference_job_token |-> reply.body.inference_job_token]>>)
                          ELSE From(e))
    /\ UNCHANGED <<logins, uuids, payloads, pc, exec, reports>>

\* Client::upload_audio, Client::upload_image (lib.rs 122-158)
upload(op, c, reply) ==
    /\ pc = "idle"
    /\ c \in Clients
    /\ uuids < MaxUuids
    /\ Len(wire) < MaxWire
    /\ LET token == new_v4(uuids)
           e == HttpError(reply, DecodesUpload(reply.body))
       IN /\ uuids' = token
          /\ wire' = Append(wire, Request(c,
                 IF op = "upload_audio" THEN "POST /media_uploads/upload_audio"
                 ELSE "POST /media_uploads/upload_image", token, ""))
          /\ call' = Returned(op, c, reply, e,
                          IF e = NoCause
                          THEN Ok(<<[success |-> reply.body.success,
                                     upload_token |-> reply.body.upload_token]>>)
                          ELSE From(e))
    /\ UNCHANGED <<logins, payloads, pc, exec, reports>>

\* Client::voices (lib.rs 104-120)
voices(c, reply) ==
    /\ pc = "idle"
    /\ c \in Clients
    /\ Len(wire) < MaxWire
    /\ LET e == HttpError(reply, DecodesValue(reply.body))
       IN /\ wire' = Append(wire, Request(c, "GET /tts/list", 0, ""))
          /\ call' = Returned("voices", c, reply, e,
                 IF e # NoCause THEN From(e)
                 ELSE IF reply.body.models = "absent"
                 THEN Anyhow("Invalid response body: missing 'models' property")
                 ELSE IF reply.body.models = "not_voices"
                 THEN Anyhow("Failed to deserialize models")
                 ELSE Ok(<<[voices |-> reply.body.models]>>))
    /\ UNCHANGED <<logins, uuids, payloads, pc, exec, reports>>

\* Client::poll_tts_job, Client::poll_face_animation_job are entered
\* (lib.rs 70-74, 183-187)
poll_enter(op, c, job) ==
    /\ pc = "idle"
    /\ c \in Clients
    /\ Len(wire) < MaxWire
    /\ call' = Call(op, c, job, 0, <<>>, <<>>, <<>>, NoReply, NoCause, 0, NoResult)
    /\ pc' = "request"
    /\ exec' = [exec EXCEPT !.cancel = FALSE]
    /\ UNCHANGED <<logins, wire, uuids, payloads, reports>>

\* the same pass in a loop that takes a rate-limited request (429) as a
\* reason to wait and ask again
poll_request_retrying(reply) ==
    /\ pc = "request"
    /\ call.requests < MaxPolls
    /\ wire' = Append(wire, Request(call.client, poll_endpoint(call.op), 0, ""))
    /\ LET e == HttpError(reply, DecodesJob(reply.body))
       IN IF e # NoCause
          THEN IF e.status = 429
               THEN /\ call' = [call EXCEPT !.requests = @ + 1, !.error = e]
                    /\ pc' = "sleep"
               ELSE /\ call' = [call EXCEPT !.requests = @ + 1, !.error = e,
                                            !.returns = @ + 1, !.result = From(e)]
                    /\ pc' = "idle"
          ELSE LET response == reply.body.v
                   out == poll_body(call.op, response)
               IN /\ call' = [call EXCEPT !.requests = @ + 1,
                                          !.seen = Append(@, Seen(response)),
                                          !.response = <<response>>,
                                          !.returns = IF out = NoResult THEN @ ELSE @ + 1,
                                          !.result = out]
                  /\ pc' = IF out = NoResult THEN "sleep" ELSE "idle"
    /\ UNCHANGED <<logins, uuids, payloads, exec, reports>>

\* one pass of the loop up to the sleep (lib.rs 75-94, 188-210): a `?` that
\* meets an error returns it, converted by From
poll_request(reply) ==
    /\ pc = "request"
    /\ call.requests < MaxPolls
    /\ wire' = Append(wire, Request(call.client, poll_endpoint(call.op), 0, ""))
    /\ LET e == HttpError(reply, DecodesJob(reply.body))
       IN IF e # NoCause
          THEN /\ call' = [call EXCEPT !.requests = @ + 1, !.error = e,
                                       !.returns = @ + 1, !.result = From(e)]
               /\ pc' = "idle"
          ELSE LET response == reply.body.v
                   out == poll_body(call.op, response)
               IN /\ call' = [call EXCEPT !.requests = @ + 1,
                                          !.seen = Append(@, Seen(response)),
                                          !.response = <<response>>,
                                          !.returns = IF out = NoResult THEN @ ELSE @ + 1,
                                          !.result = out]
                  /\ pc' = IF out = NoResult THEN "sleep" ELSE "idle"
    /\ UNCHANGED <<logins, uuids, payloads, exec, reports>>

\* a sleep that backs off: each delay is longer than the one before
poll_sleep_backoff ==
    /\ pc = "sleep"
    /\ call' = [call EXCEPT !.sleeps =
                    Append(@, poll_delay(call.op) * (Len(@) + 1))]
    /\ pc' = "request"
    /\ UNCHANGED <<logins, wire, uuids, payloads, exec, reports>>

\* a loop with a maximum iteration count: after its second sleep it gives up
poll_sleep_limited ==
    /\ pc = "sleep"
    /\ IF Len(call.sleeps) + 1 >= 2
       THEN /\ call' = [call EXCEPT !.sleeps = Append(@, poll_delay(call.op)),
                                    !.returns = @ + 1,
                                    !.result = Anyhow("poll gave up")]
            /\ pc' = "idle"
       ELSE /\ call' = [call EXCEPT !.sleeps = Append(@, poll_delay(call.op))]
            /\ pc' = "request"
    /\ UNCHANGED <<logins, wire, uuids, payloads, exec, reports>>

\* std::thread::sleep(Duration::from_secs(..)) and the jump back to the top
\* of the loop (lib.rs 95-97, 211-213)
poll_sleep ==
    /\ pc = "sleep"
    /\ call' = [call EXCEPT !.sleeps = Append(@, poll_delay(call.op))]
    /\ pc' = "request"
    /\ UNCHANGED <<logins, wire, uuids, payloads, exec, reports>>

\* ------------------------------------------- the poll loop as a future
\* The pollers are `async fn`s: the caller's executor polls the future, which
\* runs on the executor's thread until it reaches an `.await` that is not
\* ready, and only there can the executor run another task or drop the future.
\* The steps below are poll_request cut at its `.await`.

\* .send() is called and the future waits for the reply (lib.rs 75-79, 188-195)
poll_send ==
    /\ pc = "request"
    /\ call.requests < MaxPolls
    /\ wire' = Append(wire, Request(call.client, poll_endpoint(call.op), 0, ""))
    /\ call' = [call EXCEPT !.requests = @ + 1]
    /\ pc' = "await"
    /\ UNCHANGED <<logins, uuids, payloads, exec, reports>>

\* the reply is there and the future runs on (lib.rs 79-94, 195-210), up to
\* the sleep or to its return
poll_receive(reply) ==
    /\ pc = "await"
    /\ LET e == HttpError(reply, DecodesJob(reply.body))
       IN IF e # NoCause
          THEN /\ call' = [call EXCEPT !.error = e, !.returns = @ + 1,
                                       !.result = From(e)]
               /\ pc' = "idle"
          ELSE LET response == reply.body.v
                   out == poll_body(call.op, response)
               IN /\ call' = [call EXCEPT !.seen = Append(@, Seen(response)),
                                          !.response = <<response>>,
                                          !.returns = IF out = NoResult THEN @ ELSE @ + 1,
                                          !.result = out]
                  /\ pc' = IF out = NoResult THEN "sleep" ELSE "idle"
    /\ UNCHANGED <<logins, wire, uuids, payloads, exec, reports>>

\* The caller's signal is raised while the call runs: the deadline of a
\* timeout wrapped around the future passes, or whoever holds the future's
\* abort handle uses it.  The pollers take no cancellation argument
\* (lib.rs 70, 183-186), so this is all a caller can supply.
raise_cancel ==
    /\ pc \in {"await", "sleep"}
    /\ ~exec.cancel
    /\ exec' = [exec EXCEPT !.cancel = TRUE]
    /\ UNCHANGED <<logins, wire, uuids, payloads, pc, call, reports>>

\* the wrapper drops the future: possible only where the future has yielded,
\* at the `.await` of the request; the call never returns
poll_drop ==
    /\ pc = "await"
    /\ exec.cancel
    /\ pc' = "idle"
    /\ UNCHANGED <<logins, wire, uuids, payloads, call, exec, reports>>

\* another task on the same executor thread makes a step: the thread is free
\* only while no poll call runs or the running one has yielded at an `.await`.
\* std::thread::sleep (lib.rs 96, 212) does not yield: it puts the thread
\* itself to sleep.
other_task_step ==
    /\ pc \in {"idle", "await"}
    /\ exec.others < MaxOtherSteps
    /\ exec' = [exec EXCEPT !.others = @ + 1]
    /\ UNCHANGED <<logins, wire, uuids, payloads, pc, call, reports>>

\* ------------------------------------------------------------ file URLs
\* lib.rs 14
FILE_STORAGE_BASE_URL == "https://storage.googleapis.com/vocodes-public"

\* the pieces a media path is made of
PathAtoms == {"/", "foo", "bar.wav"}

\* the paths of at most n pieces, the empty path and paths with no leading,
\* a doubled or a trailing slash among them
RECURSIVE PathsOf(_)
PathsOf(n) ==
    IF n = 0 THEN {""}
    ELSE LET shorter == PathsOf(n - 1)
         IN  shorter \cup {p \o a : p \in shorter, a \in PathAtoms}

Paths == PathsOf(MaxPathAtoms)

\* a builder that joins base and path with a slash of its own
request_file_url_joining(c, public_bucket_media_path) ==
    /\ pc = "idle"
    /\ call' = Returned("request_file_url", c, NoReply, NoCause,
                        Ok(<<[path |-> public_bucket_media_path,
                              url  |-> FILE_STORAGE_BASE_URL \o "/"
                                         \o public_bucket_media_path]>>))
    /\ UNCHANGED <<logins, wire, uuids, payloads, pc, exec, reports>>

\* Client::request_file_url (lib.rs 100-102): format! of the base followed by
\* the path; no request is sent
request_file_url(c, public_bucket_media_path) ==
    /\ pc = "idle"
    /\ call' = Returned("request_file_url", c, NoReply, NoCause,
                        Ok(<<[path |-> public_bucket_media_path,
                              url  |-> FILE_STORAGE_BASE_URL
                                         \o public_bucket_media_path]>>))
    /\ UNCHANGED <<logins, wire, uuids, payloads, pc, exec, reports>>

\* login, submission, upload and catalog calls
SessionNext ==
    \/ \E built \in BOOLEAN, reply \in Replies({[json |-> "ok"]}) :
           from_login_credentials(built, reply)
    \/ \E c \in Clients, content \in Contents, reply \in Replies(SubmitBodies) :
           tts_inference(c, content, reply)
    \/ \E content \in Contents : build_payload(content)
    \/ \E c \in Clients, payload \in payloads, reply \in Replies(SubmitBodies) :
           create_facial_animation(c, payload, reply)
    \/ \E op \in {"upload_audio", "upload_image"}, c \in Clients,
          reply \in Replies(UploadBodies) : upload(op, c, reply)
    \/ \E c \in Clients, reply \in Replies(VoicesBodies) : voices(c, reply)

\* the two pollers
PollNext ==
    \/ \E op \in PollOps, c \in Clients, job \in JobTokens : poll_enter(op, c, job)
    \/ \E reply \in Replies(JobBodies) : poll_request(reply)
    \/ poll_sleep

Next == SessionNext \/ PollNext

\* the whole library
Spec == Init /\ [][Next]_vars

\* The two halves of Spec, explored apart: the calls do not read each other's
\* state (only uuids and wire are shared, and the pollers draw no uuid), and
\* the product of their histories is what makes Spec large.

\* the calls of one request each, from the first login on
SessionSpec == Init /\ [][SessionNext]_vars

\* a Client as from_login_credentials returns it: one login request was sent
\* and answered 200
PollInit ==
    /\ logins = <<[built |-> TRUE, status |-> 200, handle |-> TRUE]>>
    /\ wire = login_request(1)
    /\ uuids = 0
    /\ payloads = {}
    /\ pc = "idle"
    /\ call = Call("from_login_credentials", 1, "", 1, <<>>, <<>>, <<>>,
                   [sent |-> TRUE, status |-> 200, body |-> [json |-> "ok"]],
                   NoCause, 1, Ok(<<>>))
    /\ exec = [cancel |-> FALSE, others |-> 0]
    /\ reports = <<>>

\* the pollers on that Client
PollSpec == PollInit /\ [][PollNext]_vars

\* the URL builder on that Client; it reads and writes nothing the other
\* calls use, so it is explored on its own
UrlNext == \E c \in Clients, path \in Paths : request_file_url(c, path)

UrlSpec == PollInit /\ [][UrlNext]_vars

\* ------------------------------------------------ a job that finishes
\* what a job that finishes reports to the first MaxPolls status requests:
\* any (success, status) pairs, a terminal status among them
Reports ==
    {r \in UNION {[1..n -> [success : BOOLEAN, status : JobStatus]] : n \in 1..MaxPolls} :
        \E k \in 1..Len(r) :
            r[k].status \in {"CompleteSuccess", "CompleteFailure", "Dead"}}

\* one poll call on the Client, for a job whose reports are fixed
JobInit ==
    /\ logins = <<[built |-> TRUE, status |-> 200, handle |-> TRUE]>>
    /\ wire = login_request(1)
    /\ uuids = 0
    /\ payloads = {}
    /\ pc = "idle"
    /\ call = Call("from_login_credentials", 1, "", 1, <<>>, <<>>, <<>>,
                   [sent |-> TRUE, status |-> 200, body |-> [json |-> "ok"]],
                   NoCause, 1, Ok(<<>>))
    /\ exec = [cancel |-> FALSE, others |-> 0]
    /\ reports \in Reports

\* a status request that does not fail: it is sent, answered 200 and its body
\* decodes to the next report of the job that was asked for
poll_request_reported ==
    /\ call.requests < Len(reports)
    /\ \E reply \in Replies(JobBodies) :
          /\ reply.sent
          /\ reply.status = 200
          /\ reply.body.json = "ok"
          /\ Seen(reply.body.v) = reports[call.requests + 1]
          /\ reply.body.v.job_token = call.job
          /\ poll_request(reply)

JobNext ==
    \/ \E op \in PollOps, c \in Clients, job \in JobTokens :
           call.op \notin PollOps /\ poll_enter(op, c, job)
    \/ poll_request_reported
    \/ poll_sleep

\* The executor keeps polling the future, the remote side answers every
\* request and std::thread::sleep returns when its time is over: a poll call
\* that can make its next step makes it.
JobSpec ==
    /\ JobInit
    /\ [][JobNext]_vars
    /\ WF_vars(poll_request_reported)
    /\ WF_vars(poll_sleep)

\* the pollers as futures on an executor thread that has another task, with a
\* caller that may give up
AsyncNext ==
    \/ \E op \in PollOps, c \in Clients, job \in JobTokens : poll_enter(op, c, job)
    \/ poll_send
    \/ \E reply \in Replies(JobBodies) : poll_receive(reply)
    \/ poll_sleep
    \/ raise_cancel
    \/ poll_drop
    \/ other_task_step

AsyncSpec == PollInit /\ [][AsyncNext]_vars

\* ================================================================ claims
IsPoll == call.op \in PollOps

LastSeen == call.seen[Len(call.seen)]

NonTerminal == {"AttemptFailed", "Pending", "Started"}

JobFailedTags == {"TtsJobFailed", "FaceAnimationJobFailed"}

TransportTags == {"AuthenticationError", "TooManyRequestsError", "InternalError"}

\* the last request of the poll call was answered with a response the call read
ReadLast == IsPoll /\ call.seen # <<>> /\ call.requests = Len(call.seen)

\* C1: a poll call whose responses so far end in the first success envelope
\* with status CompleteSuccess has returned exactly once, with Ok of that very
\* response, after as many requests as responses, and the loop is not running
\* any more; a call that has returned issues no request and returns no more
C1_SuccessReturnedOnce ==
    /\ [](ReadLast /\ LastSeen.success /\ LastSeen.status = "CompleteSuccess"
           => /\ \A i \in 1..(Len(call.seen) - 1) :
                    call.seen[i].success /\ call.seen[i].status \in NonTerminal
              /\ call.returns = 1
              /\ call.result = Ok(call.response)
              /\ Seen(call.response[1]) = LastSeen
              /\ pc = "idle")
    /\ [][IsPoll /\ call.returns = 1
           => \/ call'.requests = call.requests /\ call'.returns = 1
              \/ call'.requests = 0 /\ call'.returns = 0]_vars

C1_Witness ==
    /\ call.op = "poll_tts_job"
    /\ Len(call.seen) = 3
    /\ call.seen[1].status = "Pending"
    /\ call.seen[2].status = "Started"
    /\ LastSeen = [success |-> TRUE, status |-> "CompleteSuccess"]
    /\ call.result.tag = "Ok"

\* C2: a poll call whose last response has envelope success = false, or
\* status CompleteFailure or Dead, has returned a JobFailed error that carries
\* the job token the caller passed to the call
C2_JobFailedCarriesCallerToken ==
    ReadLast /\ (~LastSeen.success \/ LastSeen.status \in {"CompleteFailure", "Dead"})
    => /\ call.returns = 1
       /\ call.op = "poll_tts_job"
          => call.result.tag = "TtsJobFailed" /\ call.result.token = call.job
       /\ call.op = "poll_face_animation_job"
          => /\ call.result.tag = "FaceAnimationJobFailed"
             /\ call.result.resp[1].job_token = call.job

\* what the chosen policy (AttemptFailed is not terminal) makes of one response
Policy(seen) ==
    IF ~seen.success THEN "fail"
    ELSE IF seen.status \in NonTerminal THEN "continue"
    ELSE IF seen.status = "CompleteSuccess" THEN "succeed"
    ELSE "fail"

\* what the call made of the last response it read
Outcome ==
    IF call.returns = 0 THEN "continue"
    ELSE IF call.result.tag = "Ok" THEN "succeed"
    ELSE IF call.result.tag \in JobFailedTags THEN "fail"
    ELSE "other"

\* C3: in both pollers a success envelope with status AttemptFailed does not
\* end the call: after it the call is in its sleep, or it has slept and stands
\* at (or has gone through) the next request; and for every (success, status)
\* pair either poller continues, succeeds or fails as the one policy says
C3_AttemptFailedNonTerminal ==
    IsPoll
    => /\ \A i \in 1..Len(call.seen) :
              call.seen[i] = [success |-> TRUE, status |-> "AttemptFailed"]
              => \/ /\ pc = "sleep" /\ call.returns = 0
                    /\ i = Len(call.seen) /\ Len(call.sleeps) = i - 1
                 \/ /\ Len(call.sleeps) >= i
                    /\ \/ pc = "request" /\ call.returns = 0 /\ call.requests = i
                       \/ call.requests > i
       /\ ReadLast => Outcome = Policy(LastSeen)

C3_Witness ==
    /\ call.op = "poll_face_animation_job"
    /\ Len(call.seen) >= 1
    /\ call.seen[1] = [success |-> TRUE, status |-> "AttemptFailed"]
    /\ call.sleeps = <<FaceAnimationPollDelay>>
    /\ call.requests = 2

\* C4: a poll call whose last response has envelope success = false has
\* returned JobFailed whatever the nested status is, without a sleep after
\* that response and without another request
C4_EnvelopeFailureOverrides ==
    ReadLast /\ ~LastSeen.success
    => /\ call.returns = 1
       /\ call.result.tag \in JobFailedTags
       /\ pc = "idle"
       /\ Len(call.sleeps) = Len(call.seen) - 1
       /\ call.requests = Len(call.seen)

C4_Witness ==
    /\ call.op = "poll_tts_job"
    /\ Len(call.seen) = 2
    /\ LastSeen = [success |-> FALSE, status |-> "CompleteSuccess"]
    /\ call.result.tag = "TtsJobFailed"

\* C5: a poll call one of whose status requests failed (send error, 4xx/5xx,
\* undecodable body) has returned one of the transport errors (for 429:
\* TooManyRequestsError) right after that request, without a sleep after it;
\* from then on the call issues no request
C5_NoRetryOnHttpError ==
    /\ [](IsPoll /\ call.error # NoCause
           => /\ call.returns = 1
              /\ pc = "idle"
              /\ call.result.tag \in TransportTags
              /\ call.error.status = 429 => call.result.tag = "TooManyRequestsError"
              /\ call.requests = Len(call.seen) + 1
              /\ Len(call.sleeps) = Len(call.seen))
    /\ [][IsPoll /\ call.error # NoCause
           => call'.requests = call.requests \/ call'.requests = 0]_vars

C5_Witness ==
    /\ IsPoll
    /\ Len(call.seen) = 2
    /\ call.error = ReqwestError("status", 429)
    /\ call.result.tag = "TooManyRequestsError"
    /\ call.requests = 3

\* C6: a call that met a reqwest::Error has returned AuthenticationError for
\* status 401, TooManyRequestsError for 429 and, for every other status and for
\* an error without status, InternalError around that very error; the kind of
\* the error plays no part
C6_ClassifierByStatus ==
    call.returns = 1 /\ call.error # NoCause
    => /\ call.result.tag =
             (IF call.error.status = 401 THEN "AuthenticationError"
              ELSE IF call.error.status = 429 THEN "TooManyRequestsError"
              ELSE "InternalError")
       /\ call.result.cause =
             (IF call.error.status \in {401, 429} THEN NoCause ELSE call.error)
       /\ call.result.token = "" /\ call.result.resp = <<>> /\ call.result.why = ""

C6_Witness ==
    /\ call.op = "tts_inference"
    /\ call.error = ReqwestError("status", 429)
    /\ call.result.tag = "TooManyRequestsError"

SubmitEndpoints == {"POST /tts/inference", "POST /animation/face_animation/create"}

\* C7: any two submission requests carry different idempotency tokens
C7_TokenUniquePerSubmission ==
    \A i, j \in 1..Len(wire) :
        i < j /\ wire[i].endpoint \in SubmitEndpoints /\ wire[j].endpoint \in SubmitEndpoints
        => wire[i].idem # wire[j].idem

SubmitOps == {"tts_inference", "create_facial_animation"}

Is2xx(status) == status >= 200 /\ status < 300

\* C8: a submission answered 2xx with a JSON body whose success flag is false
\* or that has no job token returns the error InvalidResponseShape (so neither
\* a success value nor one of the transport errors)
C8_InvalidShapeIsAnError ==
    /\ call.op \in SubmitOps
    /\ call.reply.sent /\ Is2xx(call.reply.status) /\ call.reply.body.json = "ok"
    /\ ~call.reply.body.success \/ call.reply.body.inference_job_token = None
    => call.result.tag = "InvalidResponseShape"

\* C9: for every Client, exactly one login request was sent on its
\* HttpClient, and it is the first request sent on it
C9_OneLoginFirst ==
    \A c \in Clients :
        LET mine == {i \in 1..Len(wire) : wire[i].client = c}
            login == {i \in mine : wire[i].endpoint = "POST /login"}
        IN /\ Cardinality(login) = 1
           /\ \A i \in login, j \in mine : i <= j

C9_Witness ==
    /\ Clients = {1, 2}
    /\ Len(wire) = 3
    /\ wire[3].client = 1
    /\ wire[3].endpoint = "POST /tts/inference"
    /\ call.result.tag = "Ok"

\* C10: a Client exists only for a login answered 2xx; a login answered with
\* any other status returns an error, AuthenticationError for 401; and only
\* Clients send requests other than the login
C10_ClientOnlyAfter2xxLogin ==
    /\ \A i \in 1..Len(logins) :
           /\ logins[i].handle => Is2xx(logins[i].status)
           /\ logins[i].status = 401 => ~logins[i].handle
    /\ call.op = "from_login_credentials" /\ call.reply.sent
       => /\ ~Is2xx(call.reply.status) => call.result.tag # "Ok"
          /\ call.reply.status = 401 => call.result.tag = "AuthenticationError"
    /\ \A i \in 1..Len(wire) :
           wire[i].endpoint # "POST /login" => wire[i].client \in Clients

\* C11: a catalog reply that was received and parsed as JSON but has no
\* `models` property returns the error InvalidResponseShape, a variant other
\* than those a transport failure yields (and so no list, empty or not)
C11_MissingModelsIsInvalidShape ==
    /\ call.op = "voices"
    /\ call.error = NoCause
    /\ call.reply.body.models = "absent"
    => call.result.tag = "InvalidResponseShape"

\* C12: the URL request_file_url returns is the storage base
\* https://storage.googleapis.com/vocodes-public immediately followed by the
\* path it was given, for every path: as long as both together, nothing added,
\* dropped or collapsed; "/foo/bar.wav" gives
\* https://storage.googleapis.com/vocodes-public/foo/bar.wav
C12_ExactConcatenation ==
    call.op = "request_file_url" =>
        LET r == call.result.resp[1] IN
        /\ call.result.tag = "Ok"
        /\ r.url = "https://storage.googleapis.com/vocodes-public" \o r.path
        /\ Len(r.url) = 45 + Len(r.path)
        /\ r.path = "/foo/bar.wav" =>
               r.url = "https://storage.googleapis.com/vocodes-public/foo/bar.wav"
        /\ r.path = "" => r.url = "https://storage.googleapis.com/vocodes-public"
        /\ r.path = "foo//bar.wav/" =>
               r.url = "https://storage.googleapis.com/vocodes-publicfoo//bar.wav/"

C12_Witness ==
    /\ call.op = "request_file_url"
    /\ call.result.resp[1].path = "/foo/bar.wav"
    /\ call.result.resp[1].url =
           "https://storage.googleapis.com/vocodes-public/foo/bar.wav"

\* C14: a poll call has finished exactly one sleep between any two consecutive
\* status requests: none before the first request, none after the response
\* that ended the call, and every sleep lasts the same fixed time, 8 s in
\* poll_tts_job and 10 s in poll_face_animation_job, whatever the responses
\* read before it were
C14_OneFixedSleepBetweenRequests ==
    IsPoll
    => /\ pc = "request" => Len(call.sleeps) = call.requests
       /\ pc = "sleep" => Len(call.sleeps) = call.requests - 1 /\ call.returns = 0
       /\ pc = "idle" => Len(call.sleeps) = call.requests - 1 /\ call.returns = 1
       /\ call.requests = 0 => call.sleeps = <<>>
       /\ \A i \in 1..Len(call.sleeps) :
              call.sleeps[i] = (IF call.op = "poll_tts_job" THEN 8 ELSE 10)

C14_Witness ==
    /\ call.op = "poll_face_animation_job"
    /\ call.requests = 3
    /\ call.sleeps = <<10, 10>>
    /\ call.returns = 1
    /\ pc = "idle"

\* C15: a poll call that has read n responses, all of them success envelopes
\* with status Pending, Started or AttemptFailed, and met no error has not
\* returned: it is in its n-th sleep, which it can finish, or at request n+1,
\* which it can issue (n+1 within MaxPolls); a poll call that has returned
\* met an error or read a response that is terminal or an envelope failure
C15_UnboundedPolling ==
    IsPoll
    => /\ (/\ call.error = NoCause
           /\ \A i \in 1..Len(call.seen) :
                  call.seen[i].success /\ call.seen[i].status \in NonTerminal)
          => /\ call.returns = 0
             /\ call.result = NoResult
             /\ \/ /\ pc = "sleep"
                   /\ call.requests = Len(call.seen)
                   /\ ENABLED poll_sleep
                \/ /\ pc = "request"
                   /\ call.requests = Len(call.seen)
                   /\ call.requests < MaxPolls
                      => ENABLED (\E reply \in Replies(JobBodies) : poll_request(reply))
       /\ call.returns >= 1
          => \/ call.error # NoCause
             \/ /\ call.seen # <<>>
                /\ ~LastSeen.success \/ LastSeen.status \notin NonTerminal

C15_Witness ==
    /\ IsPoll
    /\ call.requests = 3
    /\ Len(call.seen) = 3
    /\ \A i \in 1..3 : call.seen[i].success /\ call.seen[i].status \in NonTerminal
    /\ call.returns = 0

\* C17: a poll call whose last response is a success envelope with status
\* CompleteSuccess and no media path has returned Ok of that response; and
\* whatever the last response is, the call's outcome is the one it would have
\* had for the same response with the media path present or absent the other
\* way round
C17_AbsentMediaIsSuccess ==
    ReadLast
    => LET r == call.response[1]
           flipped == [r EXCEPT !.media = IF @ = None THEN "Some" ELSE None]
       IN /\ r.success /\ r.status = "CompleteSuccess" /\ r.media = None
             => /\ call.returns = 1
                /\ call.result.tag = "Ok"
                /\ call.result.resp = <<r>>
          /\ call.result.tag = poll_body(call.op, flipped).tag
          /\ Outcome = Policy(Seen(flipped))

C17_Witness ==
    /\ call.op = "poll_tts_job"
    /\ ReadLast
    /\ call.response[1].status = "CompleteSuccess"
    /\ call.response[1].success
    /\ call.response[1].media = None
    /\ call.result.tag = "Ok"

\* C18: a poll call that has returned Ok has read, as its last response, a
\* success envelope with status CompleteSuccess, no response before it was
\* one, and the value in Ok is that last response
C18_OkOnlyForLastCompleteSuccess ==
    IsPoll /\ call.result.tag = "Ok"
    => /\ ReadLast
       /\ call.returns = 1
       /\ LastSeen = [success |-> TRUE, status |-> "CompleteSuccess"]
       /\ \A i \in 1..(Len(call.seen) - 1) :
              call.seen[i] # [success |-> TRUE, status |-> "CompleteSuccess"]
       /\ Len(call.result.resp) = 1
       /\ call.result.resp = call.response
       /\ Seen(call.result.resp[1]) = LastSeen

C18_Witness ==
    /\ call.op = "poll_face_animation_job"
    /\ call.result.tag = "Ok"
    /\ Len(call.seen) = 2
    /\ call.seen[1] = [success |-> TRUE, status |-> "Started"]
    /\ call.result.resp[1].status = "CompleteSuccess"

\* C13: while a poll call is in its sleep between two requests, another task
\* of the same executor thread that has a step to make can make it
C13_SleepYieldsToOtherTasks ==
    IsPoll /\ pc = "sleep" /\ exec.others < MaxOtherSteps
    => ENABLED other_task_step

\* C16: once the caller's signal is raised on a running poll call, the call
\* issues no further status request
C16_CancelStopsRequests ==
    [][IsPoll /\ exec.cancel /\ pc # "idle" => wire' = wire]_vars

\* the position of the first report that is terminal or an envelope failure
FirstEnd(r) ==
    CHOOSE k \in 1..Len(r) :
        /\ ~r[k].success \/ r[k].status \notin NonTerminal
        /\ \A j \in 1..(k - 1) : r[j].success /\ r[j].status \in NonTerminal

\* C19: for a job that reports a terminal status at some point and with no
\* failing request, a poll call that runs returns in the end; when it has
\* returned it has issued exactly k requests and read exactly the first k
\* reports, k being the position of the first report that is terminal or an
\* envelope failure; no later report is ever requested
C19_ReturnsAtFirstEnd ==
    /\ [](IsPoll => /\ call.requests <= FirstEnd(reports)
                    /\ call.seen = SubSeq(reports, 1, Len(call.seen))
                    /\ call.returns >= 1
                       => /\ call.returns = 1
                          /\ call.requests = FirstEnd(reports)
                          /\ Len(call.seen) = FirstEnd(reports))
    /\ (IsPoll /\ call.returns = 0) ~> (IsPoll /\ call.returns = 1)

C19_Witness ==
    /\ IsPoll
    /\ call.returns = 1
    /\ Len(reports) = 3
    /\ reports[1] = [success |-> TRUE, status |-> "Pending"]
    /\ reports[2] = [success |-> TRUE, status |-> "Dead"]
    /\ reports[3] = [success |-> TRUE, status |-> "CompleteSuccess"]
    /\ call.requests = 2
====
